---- MODULE Spec2Model ----
(***************************************************************************)
(* A model of rowmerge.py: discover_mappings (column-name analysis),       *)
(* do_joins (conflict-checked outer joins) and merge_rows (the pipeline).  *)
(*                                                                         *)
(* A column name is a sequence of one-character strings, so that the       *)
(* string operations of the code (rfind, slicing, strip, the regular       *)
(* expression) are computed character by character.  A table (DataFrame)   *)
(* is a record [cols, rows]: cols is the ordered sequence of column names  *)
(* and rows a sequence of functions from the column names to cell values.  *)
(* The missing value NaN is 0, other cell values are 1 and 2.              *)
(***************************************************************************)
EXTENDS Integers, Sequences, FiniteSets

VARIABLES
    columns,      \* the column names given to discover_mappings / df_in.columns
    df_in,        \* merge_rows: the input table
    df_out,       \* merge_rows / do_joins: the working table
    pc,           \* position in the code
    index_cols,   \* discover_mappings: the set of unclaimed index columns
    mappings,     \* discover_mappings: the list of (col, suffix) pairs
    k,            \* position of the running loop (1-based)
    prev,         \* do_joins: the working table before the last iteration
    last,         \* do_joins: what the last iteration did
    log,          \* the records sent to the logger
    called        \* which functions merge_rows has called

vars == <<columns, df_in, df_out, pc, index_cols, mappings, k, prev, last, log, called>>

----------------------------------------------------------------------------
(* Bounds of the model *)

MaxCols == 3
MaxRows == 3

----------------------------------------------------------------------------
(* Python string operations *)

NaN == 0

SetMax(S) == CHOOSE x \in S : \A y \in S : y <= x
SetMin(S) == CHOOSE x \in S : \A y \in S : x <= y

\* characters matched by \w among those the column names of the model use
WordChars == {"a", "b", "c", "n", "i", "d", "_"}
\* characters removed by str.strip()
Whitespace == {" ", "\t", "\n"}

IsWord(ch) == ch \in WordChars

\* how Python clamps a slice index against a string of length n
SliceIndex(j, n) ==
    IF j < 0 THEN (IF j + n < 0 THEN 0 ELSE j + n)
    ELSE IF j > n THEN n ELSE j

\* s.rfind(ch, start, end): the highest 0-based index in the slice, or -1
RFind(s, ch, start, end) ==
    LET n == Len(s)
        lo == SliceIndex(start, n)
        hi == SliceIndex(end, n)
        hits == {j \in lo..(hi - 1) : s[j + 1] = ch}
    IN IF hits = {} THEN -1 ELSE SetMax(hits)

\* s.strip()
Strip(s) ==
    LET keep == {j \in 1..Len(s) : s[j] \notin Whitespace}
    IN IF keep = {} THEN <<>> ELSE SubSeq(s, SetMin(keep), SetMax(keep))

\* whether s[p..] is "id" followed by the end of the string ($ also matches
\* just before a final newline)
IdThenEnd(s, p) ==
    /\ p + 1 <= Len(s)
    /\ s[p] = "i"
    /\ s[p + 1] = "d"
    /\ \/ p + 1 = Len(s)
       \/ p + 2 = Len(s) /\ s[p + 2] = "\n"

\* re.match(r"\w+\.@?id$", s) is not None
ReMatchIndex(s) ==
    LET stop == {j \in 1..Len(s) : ~IsWord(s[j])}
        \* \w+ takes the longest run of word characters; the "." that must
        \* follow is no word character, so no shorter run can match
        run == IF stop = {} THEN Len(s) ELSE SetMin(stop) - 1
    IN /\ run >= 1
       /\ run + 1 <= Len(s)
       /\ s[run + 1] = "."
       /\ \/ IdThenEnd(s, run + 2)
          \/ run + 2 <= Len(s) /\ s[run + 2] = "@" /\ IdThenEnd(s, run + 3)

----------------------------------------------------------------------------
(* discover_mappings *)

\* variant of IsIndexCol: re.search in place of re.match
IsIndexColSearch(col) ==
    \E p \in 1..Len(Strip(col)) : ReMatchIndex(SubSeq(Strip(col), p, Len(Strip(col))))

\* the test of the first loop
IsIndexCol(col) == ReMatchIndex(Strip(col))

\* position of the second to last "." (or -1 if it isn't found)
Offset(col) == RFind(col, ".", 0, RFind(col, ".", 0, Len(col)))

\* col[offset+1:]
Suffix(col) == SubSeq(col, Offset(col) + 2, Len(col))

\* one iteration of the first loop
ClassifyStep(idx, col) == IF IsIndexCol(col) THEN idx \cup {col} ELSE idx

\* variant of MatchStep: the index column claimed is not removed
MatchStepKeepIndex(st, col) ==
    IF Offset(col) > 0 /\ Suffix(col) \in st.idx
    THEN [idx |-> st.idx, maps |-> Append(st.maps, <<col, Suffix(col)>>)]
    ELSE st

\* variant of MatchStep: offset >= 0 in place of offset > 0
MatchStepAnyOffset(st, col) ==
    IF Offset(col) >= 0 /\ Suffix(col) \in st.idx
    THEN [idx |-> st.idx \ {Suffix(col)},
          maps |-> Append(st.maps, <<col, Suffix(col)>>)]
    ELSE st

\* one iteration of the second loop, on st = [idx, maps]
MatchStep(st, col) ==
    IF Offset(col) > 0 /\ Suffix(col) \in st.idx
    THEN [idx |-> st.idx \ {Suffix(col)},
          maps |-> Append(st.maps, <<col, Suffix(col)>>)]
    ELSE st

RECURSIVE ClassifyLoop(_, _, _)
ClassifyLoop(cols, j, idx) ==
    IF j > Len(cols) THEN idx
    ELSE ClassifyLoop(cols, j + 1, ClassifyStep(idx, cols[j]))

RECURSIVE MatchLoop(_, _, _)
MatchLoop(cols, j, st) ==
    IF j > Len(cols) THEN st
    ELSE MatchLoop(cols, j + 1, MatchStep(st, cols[j]))

discover_mappings(cols) ==
    MatchLoop(cols, 1, [idx |-> ClassifyLoop(cols, 1, {}), maps |-> <<>>]).maps

----------------------------------------------------------------------------
(* Column names of the model *)

a_id == <<"a", ".", "i", "d">>
b_id == <<"b", ".", "i", "d">>
c_id == <<"c", ".", "i", "d">>
a_atid == <<"a", ".", "@", "i", "d">>
b_a_id == <<"b", ".", "a", ".", "i", "d">>
c_a_id == <<"c", ".", "a", ".", "i", "d">>
a_b_id == <<"a", ".", "b", ".", "i", "d">>
b_c_id == <<"b", ".", "c", ".", "i", "d">>
b_a_atid == <<"b", ".", "a", ".", "@", "i", "d">>
dot_a_id == <<".", "a", ".", "i", "d">>
ba_id == <<"b", "a", ".", "i", "d">>
a_id_b == <<"a", ".", "i", "d", ".", "b">>
sp_a_id == <<" ", "a", ".", "i", "d">>
b_sp_a_id == <<"b", ".", " ", "a", ".", "i", "d">>
a_id_sp == <<"a", ".", "i", "d", " ">>
dash_id == <<"-", ".", "i", "d">>
b_dash_id == <<"b", ".", "-", ".", "i", "d">>
a_b_c == <<"a", ".", "b", ".", "c">>
n_col == <<"n">>
dot == <<".">>
empty_name == <<>>

NamePool ==
    {a_id, b_id, a_atid, b_a_id, c_a_id, a_b_id, b_a_atid, dot_a_id, ba_id,
     a_id_b, sp_a_id, b_sp_a_id, a_id_sp, dash_id, b_dash_id, a_b_c, n_col,
     dot, empty_name}

ColumnLists == UNION {[1..n -> NamePool] : n \in 0..MaxCols}

Range(s) == {s[j] : j \in 1..Len(s)}

NoTable == [cols |-> <<>>, rows |-> <<>>]
NoIteration == [kind |-> "none", ref |-> <<>>, id |-> <<>>, logs |-> <<>>]

----------------------------------------------------------------------------
(* SpecDiscover: discover_mappings run on a list of column names *)

InitDiscover ==
    /\ columns \in ColumnLists
    /\ pc = "classify"
    /\ index_cols = {}
    /\ mappings = <<>>
    /\ k = 1
    /\ df_in = NoTable
    /\ df_out = NoTable
    /\ prev = NoTable
    /\ last = NoIteration
    /\ log = <<>>
    /\ called = {}

\* the first loop: index_cols.add(col) for the columns that match
ClassifyCol ==
    /\ pc = "classify"
    /\ k <= Len(columns)
    /\ index_cols' = ClassifyStep(index_cols, columns[k])
    /\ k' = k + 1
    /\ UNCHANGED <<columns, df_in, df_out, pc, mappings, prev, last, log, called>>

\* the first loop ends, the second starts
ClassifyDone ==
    /\ pc = "classify"
    /\ k > Len(columns)
    /\ pc' = "match"
    /\ k' = 1
    /\ UNCHANGED <<columns, df_in, df_out, index_cols, mappings, prev, last, log, called>>

\* the second loop: emit a mapping and claim its index column
MatchCol ==
    /\ pc = "match"
    /\ k <= Len(columns)
    /\ LET st == MatchStep([idx |-> index_cols, maps |-> mappings], columns[k])
       IN /\ index_cols' = st.idx
          /\ mappings' = st.maps
    /\ k' = k + 1
    /\ UNCHANGED <<columns, df_in, df_out, pc, prev, last, log, called>>

\* return mappings
MatchDone ==
    /\ pc = "match"
    /\ k > Len(columns)
    /\ pc' = "returned"
    /\ UNCHANGED <<columns, df_in, df_out, index_cols, mappings, k, prev, last, log, called>>

NextDiscover == ClassifyCol \/ ClassifyDone \/ MatchCol \/ MatchDone

SpecDiscover == InitDiscover /\ [][NextDiscover]_vars

----------------------------------------------------------------------------
(* DataFrame operations *)

ColSet(t) == Range(t.cols)

\* t[t.loc[:, c].notna()]: the rows of t with a value in column c, in order
RowsWithValue(t, c) ==
    LET Keep(r) == r[c] # NaN
    IN [cols |-> t.cols, rows |-> SelectSeq(t.rows, Keep)]

\* t.drop(index=...) of those rows: the rows of t with no value in column c
RowsWithoutValue(t, c) ==
    LET Keep(r) == r[c] = NaN
    IN [cols |-> t.cols, rows |-> SelectSeq(t.rows, Keep)]

\* variant of DropNaRows: how='any'
DropNaRowsAny(t) ==
    LET Keep(r) == \A c \in ColSet(t) : r[c] # NaN
    IN [cols |-> t.cols, rows |-> SelectSeq(t.rows, Keep)]

\* t.dropna(how='all'): drop the rows that are missing in every column
DropNaRows(t) ==
    LET Keep(r) == \E c \in ColSet(t) : r[c] # NaN
    IN [cols |-> t.cols, rows |-> SelectSeq(t.rows, Keep)]

\* variant of DropNaCols: how='any'
DropNaColsAny(t) ==
    LET Keep(c) == \A j \in 1..Len(t.rows) : t.rows[j][c] # NaN
        kept == SelectSeq(t.cols, Keep)
    IN [cols |-> kept,
        rows |-> [j \in 1..Len(t.rows) |-> [c \in Range(kept) |-> t.rows[j][c]]]]

\* t.dropna(axis='columns', how='all'): drop the columns that are missing in
\* every row (every column, when t has no row)
DropNaCols(t) ==
    LET Keep(c) == \E j \in 1..Len(t.rows) : t.rows[j][c] # NaN
        kept == SelectSeq(t.cols, Keep)
    IN [cols |-> kept,
        rows |-> [j \in 1..Len(t.rows) |-> [c \in Range(kept) |-> t.rows[j][c]]]]

\* variant of Merge: how='left'
MergeLeft(left, right, left_on, right_on) ==
    LET lc == ColSet(left)
        all == lc \cup ColSet(right)
        Both(l, r) == [c \in all |-> IF c \in lc THEN l[c] ELSE r[c]]
        LeftOnly(l) == [c \in all |-> IF c \in lc THEN l[c] ELSE NaN]
        RowsFor(l) ==
            LET Hit(r) == r[right_on] = l[left_on]
                m == SelectSeq(right.rows, Hit)
            IN IF m = <<>> THEN <<LeftOnly(l)>>
               ELSE [j \in 1..Len(m) |-> Both(l, m[j])]
        fromLeft[j \in 0..Len(left.rows)] ==
            IF j = 0 THEN <<>> ELSE fromLeft[j - 1] \o RowsFor(left.rows[j])
    IN [cols |-> left.cols \o right.cols, rows |-> fromLeft[Len(left.rows)]]

\* pd.merge(left, right, left_on=.., right_on=.., how='outer') for frames
\* that share no column name and hold both key columns.  Equal keys match
\* (pandas also matches a missing key with a missing key).  The rows are
\* listed left row by left row, then the right rows nothing matched; the
\* order pandas gives them depends on the key values' sort order.
Merge(left, right, left_on, right_on) ==
    LET lc == ColSet(left)
        all == lc \cup ColSet(right)
        Both(l, r) == [c \in all |-> IF c \in lc THEN l[c] ELSE r[c]]
        LeftOnly(l) == [c \in all |-> IF c \in lc THEN l[c] ELSE NaN]
        RightOnly(r) == [c \in all |-> IF c \in lc THEN NaN ELSE r[c]]
        RowsFor(l) ==
            LET Hit(r) == r[right_on] = l[left_on]
                m == SelectSeq(right.rows, Hit)
            IN IF m = <<>> THEN <<LeftOnly(l)>>
               ELSE [j \in 1..Len(m) |-> Both(l, m[j])]
        fromLeft[j \in 0..Len(left.rows)] ==
            IF j = 0 THEN <<>> ELSE fromLeft[j - 1] \o RowsFor(left.rows[j])
        Lonely(r) == \A j \in 1..Len(left.rows) : left.rows[j][left_on] # r[right_on]
        rest == SelectSeq(right.rows, Lonely)
    IN [cols |-> left.cols \o right.cols,
        rows |-> fromLeft[Len(left.rows)]
                 \o [j \in 1..Len(rest) |-> RightOnly(rest[j])]]

\* the names of S as a sequence, in an order of the set's own
RECURSIVE SetToSeq(_)
SetToSeq(S) ==
    IF S = {} THEN <<>>
    ELSE LET x == CHOOSE y \in S : TRUE IN <<x>> \o SetToSeq(S \ {x})

\* for col in set(cols).difference(t.columns): t.insert(0, col, NaN)
InsertMissing(t, cols) ==
    LET new == Range(cols) \ ColSet(t)
    IN [cols |-> SetToSeq(new) \o t.cols,
        rows |-> [j \in 1..Len(t.rows) |->
                    [c \in new \cup ColSet(t) |->
                        IF c \in new THEN NaN ELSE t.rows[j][c]]]]

\* variant of Select: the table as it is
SelectAsIs(t, cols) == t

\* t[cols]: the columns named, in the order named
Select(t, cols) ==
    [cols |-> cols,
     rows |-> [j \in 1..Len(t.rows) |-> [c \in Range(cols) |-> t.rows[j][c]]]]

----------------------------------------------------------------------------
(* do_joins: the body of the loop, for one mapping *)

\* variant of JoinIteration: on overlap the remainder becomes the table
JoinIterationKeepTmp(df, ref_col, id_col) ==
    IF id_col \notin ColSet(df)
    THEN \* df_out.loc[:, id_col] raises KeyError
         [kind |-> "KeyError", table |-> df, logs |-> <<>>]
    ELSE
    LET df_to_join == DropNaCols(RowsWithValue(df, id_col))
        df_tmp == DropNaCols(RowsWithoutValue(df, id_col))
        overlap == ColSet(df_to_join) \cap ColSet(df_tmp)
    IN IF Len(RowsWithValue(df, id_col).rows) = 0
       THEN [kind |-> "empty", table |-> df, logs |-> <<>>]
       ELSE IF overlap # {}
       THEN [kind |-> "overlap", table |-> RowsWithoutValue(df, id_col),
             logs |-> << <<"WARNING", id_col, overlap>> >>]
       ELSE IF ref_col \notin ColSet(df_tmp)
       THEN \* pd.merge raises KeyError: left_on is no column of df_tmp
            [kind |-> "KeyError", table |-> df,
             logs |-> << <<"INFO", id_col, ref_col>> >>]
       ELSE [kind |-> "joined",
             table |-> Merge(df_tmp, df_to_join, ref_col, id_col),
             logs |-> << <<"INFO", id_col, ref_col>> >>]

JoinIteration(df, ref_col, id_col) ==
    IF id_col \notin ColSet(df)
    THEN \* df_out.loc[:, id_col] raises KeyError
         [kind |-> "KeyError", table |-> df, logs |-> <<>>]
    ELSE
    LET df_to_join == DropNaCols(RowsWithValue(df, id_col))
        df_tmp == DropNaCols(RowsWithoutValue(df, id_col))
        overlap == ColSet(df_to_join) \cap ColSet(df_tmp)
    IN IF Len(RowsWithValue(df, id_col).rows) = 0
       THEN [kind |-> "empty", table |-> df, logs |-> <<>>]
       ELSE IF overlap # {}
       THEN [kind |-> "overlap", table |-> df,
             logs |-> << <<"WARNING", id_col, overlap>> >>]
       ELSE IF ref_col \notin ColSet(df_tmp)
       THEN \* pd.merge raises KeyError: left_on is no column of df_tmp
            [kind |-> "KeyError", table |-> df,
             logs |-> << <<"INFO", id_col, ref_col>> >>]
       ELSE [kind |-> "joined",
             table |-> Merge(df_tmp, df_to_join, ref_col, id_col),
             logs |-> << <<"INFO", id_col, ref_col>> >>]

----------------------------------------------------------------------------
(* Spec: merge_rows run on a table *)

\* headers whose tables are enumerated with their rows in every order
OrderedHeaders == {<<n_col, a_id>>}

\* headers whose tables are enumerated up to the order of their rows
Headers ==
    {<<a_id, b_a_id, n_col>>,
     <<a_id, b_a_id, c_id, b_c_id>>}

\* the values a cell of column c takes in the tables of the model
ColCells(c) == IF c \in {c_id, b_c_id} THEN {NaN, 1} ELSE {NaN, 1, 2}

RECURSIVE RowCount(_, _)
\* the number of distinct rows over the first j columns of cols
RowCount(cols, j) ==
    IF j = 0 THEN 1 ELSE RowCount(cols, j - 1) * Cardinality(ColCells(cols[j]))

\* the row numbered code: column j holds digit j of code (mixed radix)
RowOf(cols, code) ==
    [c \in Range(cols) |->
        LET j == CHOOSE i \in 1..Len(cols) : cols[i] = c
        IN (code \div RowCount(cols, j - 1)) % Cardinality(ColCells(c))]

RECURSIVE SortedCodes(_, _, _)
\* the non-decreasing sequences of m row numbers in lo..(n - 1)
SortedCodes(m, lo, n) ==
    IF m = 0 THEN {<<>>}
    ELSE UNION {{<<x>> \o t : t \in SortedCodes(m - 1, x, n)} : x \in lo..(n - 1)}

TableOf(cols, codes) ==
    [cols |-> cols, rows |-> [j \in 1..Len(codes) |-> RowOf(cols, codes[j])]]

TablesOver(cols) ==
    {TableOf(cols, codes) :
        codes \in UNION {SortedCodes(m, 0, RowCount(cols, Len(cols))) : m \in 0..MaxRows}}

OrderedTablesOver(cols) ==
    {TableOf(cols, codes) :
        codes \in UNION {[1..m -> 0..(RowCount(cols, Len(cols)) - 1)] : m \in 0..MaxRows}}

Init ==
    /\ \/ columns \in Headers /\ df_in \in TablesOver(columns)
       \/ columns \in OrderedHeaders /\ df_in \in OrderedTablesOver(columns)
    /\ df_out = NoTable
    /\ pc = "dropna"
    /\ index_cols = {}
    /\ mappings = <<>>
    /\ k = 1
    /\ prev = NoTable
    /\ last = NoIteration
    /\ log = <<>>
    /\ called = {}

\* df_out = df_in.dropna(how='all'); return it when no row is left
DropEmptyRows ==
    /\ pc = "dropna"
    /\ df_out' = DropNaRows(df_in)
    /\ pc' = IF Len(DropNaRows(df_in).rows) = 0 THEN "returned" ELSE "discover"
    /\ UNCHANGED <<columns, df_in, index_cols, mappings, k, prev, last, log, called>>

\* col_mappings = discover_mappings(df_out.columns); warn and return when
\* there is none, else enter do_joins
Discover ==
    /\ pc = "discover"
    /\ mappings' = discover_mappings(df_out.cols)
    /\ IF Len(discover_mappings(df_out.cols)) = 0
       THEN /\ log' = Append(log, <<"WARNING", "no join operations">>)
            /\ pc' = "returned"
            /\ called' = called \cup {"discover_mappings"}
       ELSE /\ log' = log
            /\ pc' = "do_joins"
            /\ called' = called \cup {"discover_mappings", "do_joins"}
    /\ k' = 1
    /\ UNCHANGED <<columns, df_in, df_out, index_cols, prev, last>>

\* one iteration of the loop of do_joins
JoinIter ==
    /\ pc = "do_joins"
    /\ k <= Len(mappings)
    /\ LET res == JoinIteration(df_out, mappings[k][1], mappings[k][2])
       IN /\ df_out' = res.table
          /\ log' = log \o res.logs
          /\ last' = [kind |-> res.kind, ref |-> mappings[k][1], id |-> mappings[k][2],
                      logs |-> res.logs]
          /\ IF res.kind = "KeyError"
             THEN pc' = "raised" /\ k' = k
             ELSE pc' = pc /\ k' = k + 1
    /\ prev' = df_out
    /\ UNCHANGED <<columns, df_in, index_cols, mappings, called>>

\* do_joins returns; reinsert the dropped columns, reorder, return
Finish ==
    /\ pc = "do_joins"
    /\ k > Len(mappings)
    /\ df_out' = Select(InsertMissing(df_out, df_in.cols), df_in.cols)
    /\ pc' = "returned"
    /\ UNCHANGED <<columns, df_in, index_cols, mappings, k, prev, last, log, called>>

Next == DropEmptyRows \/ Discover \/ JoinIter \/ Finish

Spec == Init /\ [][Next]_vars

----------------------------------------------------------------------------
(* Claims about discover_mappings, checked under SpecDiscover *)

\* c is s preceded by "." and by a prefix of n characters
DotJoined(c, s, n) ==
    /\ Len(c) = n + 1 + Len(s)
    /\ c[n + 1] = "."
    /\ SubSeq(c, n + 2, Len(c)) = s

\* c ends in "." followed by s: s is what follows the second-to-last "." of c
\* (s, an index column, holds exactly one ".")
RefersTo(c, s) == \E n \in 0..Len(c) : DotJoined(c, s, n)

\* as RefersTo, with at least one character before that "."
RefersToWithPrefix(c, s) == \E n \in 1..Len(c) : DotJoined(c, s, n)

\* s is word characters, one ".", then "id" or "@id"
IndexPattern(s) ==
    \E w \in 1..Len(s) :
        /\ \A j \in 1..w : s[j] \in WordChars
        /\ SubSeq(s, w + 1, Len(s)) \in {<<".", "i", "d">>, <<".", "@", "i", "d">>}

\* s without the blanks around it
Trimmed(s) ==
    CHOOSE t \in {SubSeq(s, i, j) : i \in 1..(Len(s) + 1), j \in 0..Len(s)} :
        /\ \E i \in 1..(Len(s) + 1), j \in 0..Len(s) :
              /\ t = SubSeq(s, i, j)
              /\ \A m \in 1..(i - 1) : s[m] \in Whitespace
              /\ \A m \in (j + 1)..Len(s) : s[m] \in Whitespace
        /\ t = <<>> \/ (t[1] \notin Whitespace /\ t[Len(t)] \notin Whitespace)

\* the first column, in input order, of those at the positions P
FirstOf(P) == columns[SetMin(P)]

\* C6 as stated: each index column is the target of at most one mapping, and
\* its referencing column is the first column in input order whose suffix
\* after the second-to-last "." is that index column.
C6_FirstSuffixMatchWins ==
    pc = "returned" =>
        /\ \A i, j \in 1..Len(mappings) : mappings[i][2] = mappings[j][2] => i = j
        /\ \A i \in 1..Len(mappings) :
              mappings[i][1] =
                  FirstOf({j \in 1..Len(columns) : RefersTo(columns[j], mappings[i][2])})

\* C6 amended: each index column is the target of at most one mapping, and its
\* referencing column is the first column in input order that has at least
\* one character before its second-to-last "." and whose suffix after that
\* "." is the index column; later such columns produce no mapping.
C6_FirstMatchWins ==
    pc = "returned" =>
        /\ \A i, j \in 1..Len(mappings) : mappings[i][2] = mappings[j][2] => i = j
        /\ \A i \in 1..Len(mappings) :
              mappings[i][1] =
                  FirstOf({j \in 1..Len(columns) :
                              RefersToWithPrefix(columns[j], mappings[i][2])})

\* two columns refer to the same index column and one mapping came out
C6_Witness ==
    /\ pc = "returned"
    /\ Len(mappings) = 1
    /\ \E i, j \in 1..Len(columns) :
          /\ i < j
          /\ columns[i] # columns[j]
          /\ RefersToWithPrefix(columns[i], mappings[1][2])
          /\ RefersToWithPrefix(columns[j], mappings[1][2])

\* the shape of the mappings that C7 states, Index being the set of names
\* that count as index columns
MappingShape(Index) ==
    /\ \A i \in 1..Len(mappings) :
          /\ mappings[i][2] \in Range(columns) \cap Index
          /\ mappings[i][1] \in Range(columns)
          /\ RefersToWithPrefix(mappings[i][1], mappings[i][2])
    /\ Range(columns) \cap Index = {} => mappings = <<>>
    /\ (\A c \in Range(columns), s \in Range(columns) \cap Index : ~RefersTo(c, s))
          => mappings = <<>>

\* C7 as stated: a mapping (c, s) is returned only if s is a column matching
\* the index pattern and c is a column made of a non-empty prefix, "." and s;
\* no index column, or no column with an index column as suffix, gives the
\* empty list.
C7_TargetMatchesPattern ==
    pc = "returned" => MappingShape({s \in Range(columns) : IndexPattern(s)})

\* C7 amended: a mapping (c, s) is returned only if s is a column that matches
\* the index pattern once the blanks around it are removed, and c is a column
\* made of a non-empty prefix, "." and s; an input with no such index column,
\* or with no column that has one as its suffix, gives the empty list.
C7_TargetMatchesPatternStripped ==
    pc = "returned" => MappingShape({s \in Range(columns) : IndexPattern(Trimmed(s))})

\* a mapping whose index column carries a blank
C7_Witness ==
    /\ pc = "returned"
    /\ \E i \in 1..Len(mappings) :
          /\ \E j \in 1..Len(mappings[i][2]) : mappings[i][2][j] \in Whitespace
          /\ RefersToWithPrefix(mappings[i][1], mappings[i][2])

\* C10 as stated, on the input of the spec's example ("foo.bar.id" referencing
\* "bar.id" while "bar.id" is an index column): some returned mapping's first
\* component is an index column of the input.
C10_IndexColumnRefers ==
    (pc = "returned" /\ columns = <<b_id, a_b_id>>) =>
        \E i \in 1..Len(mappings) : mappings[i][1] \in ClassifyLoop(columns, 1, {})

\* C10 amended: no returned mapping's first component is a column that the
\* first loop classified as an index column of the input (an index column
\* holds one ".", a referencing column at least two).
C10_IndexColumnNeverRefers ==
    pc = "returned" =>
        \A i \in 1..Len(mappings) : mappings[i][1] \notin ClassifyLoop(columns, 1, {})

\* two index columns in the input, and a mapping onto one of them
C10_Witness ==
    /\ pc = "returned"
    /\ mappings # <<>>
    /\ called = {}
    /\ Cardinality(ClassifyLoop(columns, 1, {})) >= 2

----------------------------------------------------------------------------
(* Claims about do_joins and merge_rows, checked under Spec *)

\* the positions of the rows of t with a value in column id
JoinablePos(t, id) ==
    {j \in 1..Len(t.rows) : id \in ColSet(t) /\ t.rows[j][id] # NaN}

RemainderPos(t, id) == (1..Len(t.rows)) \ JoinablePos(t, id)

\* the columns of t that hold a value in some row among those at positions P
Populated(t, P) == {c \in ColSet(t) : \E j \in P : t.rows[j][c] # NaN}

\* how many rows of the sequence rows equal x
Occurrences(rows, x) == Cardinality({j \in 1..Len(rows) : rows[j] = x})

\* an iteration of do_joins has just run: prev is the table it started from,
\* df_out the table it left
IterationRan == pc \in {"do_joins", "raised"} /\ last.kind # "none"

\* C1: when do_joins performs the join of a mapping, the working table becomes
\* the full outer join of the remainder with the joinable rows on
\* ref_col = id_col: one row per matching pair, one row for each remainder row
\* without match (joinable-side columns missing), one row for each joinable
\* row without match (remainder-side columns missing), and no other row.
C1_FullOuterJoin ==
    (IterationRan /\ last.kind = "joined") =>
        LET J == JoinablePos(prev, last.id)
            R == RemainderPos(prev, last.id)
            jc == Populated(prev, J)
            rc == Populated(prev, R)
            Partners(r) == {j \in J : prev.rows[j][last.id] = prev.rows[r][last.ref]}
            Seekers(j) == {r \in R : prev.rows[j][last.id] = prev.rows[r][last.ref]}
            \* <<r, j>>: a matching pair; 0 stands for no row of that side
            pairs == {p \in R \X J : p[2] \in Partners(p[1])}
            items == pairs
                     \cup {<<r, 0>> : r \in {q \in R : Partners(q) = {}}}
                     \cup {<<0, j>> : j \in {q \in J : Seekers(q) = {}}}
            RowFor(p) ==
                [c \in rc \cup jc |->
                    IF c \in rc
                    THEN (IF p[1] = 0 THEN NaN ELSE prev.rows[p[1]][c])
                    ELSE (IF p[2] = 0 THEN NaN ELSE prev.rows[p[2]][c])]
        IN /\ ColSet(df_out) = rc \cup jc
           /\ Len(df_out.cols) = Cardinality(rc \cup jc)
           /\ Len(df_out.rows) = Cardinality(items)
           /\ \A p \in items :
                 Occurrences(df_out.rows, RowFor(p))
                     = Cardinality({q \in items : RowFor(q) = RowFor(p)})

\* a join in which one joinable row is matched by two remainder rows
C1_Witness ==
    /\ IterationRan
    /\ last.kind = "joined"
    /\ \E j \in JoinablePos(prev, last.id) :
          Cardinality({r \in RemainderPos(prev, last.id) :
                          prev.rows[r][last.ref] = prev.rows[j][last.id]}) = 2
    /\ Len(df_out.rows) = 2

\* C2: when the narrowed partitions of a mapping share a column, the join is
\* not performed, the working table after the iteration is the one before
\* it, and the loop goes on to the next mapping.
C2_OverlapLeavesTable ==
    (/\ IterationRan
     /\ Populated(prev, JoinablePos(prev, last.id))
            \cap Populated(prev, RemainderPos(prev, last.id)) # {}) =>
        /\ df_out = prev
        /\ last.kind = "overlap"
        /\ pc = "do_joins"
        /\ mappings[k - 1] = <<last.ref, last.id>>

\* a join was skipped for overlap and another mapping is still to come
C2_Witness ==
    /\ IterationRan
    /\ last.kind = "overlap"
    /\ JoinablePos(prev, last.id) # {}
    /\ df_out = prev
    /\ k <= Len(mappings)

\* C3: every value of the input is in its column in some row of the output,
\* and the output holds no value the input does not hold in that column (so
\* a reinserted column is entirely missing).
C3_NoValueLostOrMade ==
    pc = "returned" =>
        /\ \A c \in ColSet(df_in), j \in 1..Len(df_in.rows) :
              df_in.rows[j][c] # NaN =>
                  \E i \in 1..Len(df_out.rows) : df_out.rows[i][c] = df_in.rows[j][c]
        /\ \A c \in ColSet(df_out), i \in 1..Len(df_out.rows) :
              df_out.rows[i][c] # NaN =>
                  \E j \in 1..Len(df_in.rows) : df_in.rows[j][c] = df_out.rows[i][c]

\* rows were merged by a join and an entirely missing column was put back
C3_Witness ==
    /\ pc = "returned"
    /\ last.kind = "joined"
    /\ Len(df_out.rows) < Len(df_in.rows)
    /\ \E c \in ColSet(df_in) : Populated(df_in, 1..Len(df_in.rows)) = ColSet(df_in) \ {c}

\* C4: the table merge_rows returns has exactly the input's columns, in the
\* input's order, on every return path.
C4_ColumnsAsInput ==
    pc = "returned" =>
        /\ df_out.cols = df_in.cols
        /\ \A i \in 1..Len(df_out.rows) : DOMAIN df_out.rows[i] = ColSet(df_in)

\* merge_rows returns after two joins, the second of which put the columns in
\* another order than the input has them, with a column dropped on the way
C4_Witness ==
    /\ pc = "returned"
    /\ last.kind = "joined"
    /\ Len(mappings) = 2
    /\ Populated(df_in, 1..Len(df_in.rows)) # ColSet(df_in)

\* C5: merge_rows is total: no iteration of do_joins fails because ref_col or
\* id_col is no column of the table it is looked up in.
C5_NeverRaises == pc # "raised"

\* C8: when no row is left after the entirely missing rows are removed, or
\* discover_mappings finds no mapping, merge_rows returns the input without
\* its entirely missing rows (same columns, same rows in the same order),
\* without calling do_joins, and in the first case without discovery.
C8_PassThrough ==
    LET live == {j \in 1..Len(df_in.rows) :
                    \E c \in ColSet(df_in) : df_in.rows[j][c] # NaN}
        \* the position in df_in of the i-th row kept
        Nth(i) == CHOOSE j \in live : Cardinality({m \in live : m <= j}) = i
    IN (pc = "returned" /\ (live = {} \/ discover_mappings(df_in.cols) = <<>>)) =>
          /\ df_out.cols = df_in.cols
          /\ Len(df_out.rows) = Cardinality(live)
          /\ \A i \in 1..Len(df_out.rows) : df_out.rows[i] = df_in.rows[Nth(i)]
          /\ "do_joins" \notin called
          /\ live = {} => "discover_mappings" \notin called

\* no mapping was found, and an entirely missing row was removed from between
\* two others
C8_Witness ==
    /\ pc = "returned"
    /\ "discover_mappings" \in called
    /\ mappings = <<>>
    /\ Len(df_in.rows) = 3
    /\ Len(df_out.rows) = 2
    /\ df_out.rows[1] # df_out.rows[2]
    /\ \A c \in ColSet(df_in) : df_in.rows[2][c] = NaN

\* C9: an iteration for a mapping whose id_col holds no value in any row of
\* the working table is a no-op: the table is unchanged, nothing is logged and
\* the loop goes on to the next mapping.
C9_EmptyJoinableIsNoOp ==
    (IterationRan /\ JoinablePos(prev, last.id) = {}) =>
        /\ df_out = prev
        /\ last.logs = <<>>
        /\ pc = "do_joins"
        /\ mappings[k - 1] = <<last.ref, last.id>>

====
